---- MODULE Spec2Model ----
(***************************************************************************)
(* Chute monitor (chute_monitor.py, web_ui.py): the status classifier,     *)
(* the classification cycle with its hysteresis counter, the monitoring    *)
(* loop and the request handlers that share the monitor with it.           *)
(*                                                                         *)
(* Numbers.  Distances are points of an integer grid (the classifier only  *)
(* compares distances and forms one ratio of differences, so the unit is   *)
(* immaterial).  Confidence is kept in units of 1/500, the unit of         *)
(* strength / 500.0: the floor 0.1 is 50.  full_threshold is kept in       *)
(* tenths.  The ratio of line 295 is computed exactly, as a fraction; on   *)
(* the grid and the thresholds used here (0.5, 0.8, 1.0) the IEEE double   *)
(* evaluation of lines 289-303 returns the same status as the exact one.   *)
(* The sensor's readings are multiples of 60 grid points, which puts the   *)
(* mean of up to five readings on the grid; the mean is computed exactly.  *)
(***************************************************************************)
EXTENDS Integers, Sequences, FiniteSets, TLC

VARIABLES
    calibration_data,   \* self.calibration_data
    config,             \* self.config (inference_threshold, full_threshold)
    distance,           \* argument of the determine_chute_status call
    confidence,         \* argument of the determine_chute_status call
    call,               \* the call's outcome, or NoCall before it is made
    pc,                 \* "call" before the classifier is applied, "returned" after
    status,             \* self.status, the ChuteStatus record
    lidar,              \* self.lidar: TRUE when the serial connection is open
    light,              \* last colour written to self.light; "none": no device
    running,            \* self.running
    clock,              \* datetime.now(): classification cycles and scans so far
    hist,               \* history: per scheduled cycle, whether it classified full
    calibration_file,   \* the persisted snapshot at config.calibration_file
    monitor_thread,     \* self.monitor_thread: a loop thread's id, 0 for None
    loops,              \* per loop thread: where it is in _monitor_loop
    reqs,               \* per request thread: its handler and where it is in it
    local,              \* per thread: the locals of an update_status or api_scan call
    origin,             \* history: per field of self.status, the call that wrote it
    clean,              \* history: stop calls returned with no start invoked since
    scan,               \* the locals and outcome of a scan_chute call on the connection
    calib,              \* the last calibration call: its readings and what it returned
    ctor                \* ChuteMonitor.__init__: where it is, and whether self.logger is set

classifyVars == <<distance, confidence, call, pc>>
threadVars == <<monitor_thread, loops, reqs, local, origin, clean>>
monitorVars == <<status, lidar, light, running, clock, hist, calibration_file,
                 monitor_thread, loops, reqs, local, origin, clean>>
callVars == <<scan, calib, ctor>>
vars == <<calibration_data, config, distance, confidence, call, pc,
          status, lidar, light, running, clock, hist, calibration_file,
          monitor_thread, loops, reqs, local, origin, clean, scan, calib, ctor>>

-----------------------------------------------------------------------------
(* Bounds and program constants *)

MaxDistance == 101          \* distances handed to the classifier: 0..MaxDistance
MaxReading == 4             \* readings of the sensor: 1..MaxReading steps of ReadingStep
MaxClock == 4               \* classification cycles and forced scans of one run
MaxInferenceThreshold == 3  \* inference_threshold ranges over 1..MaxInferenceThreshold
MaxRequests == 3            \* request threads of one run (and so loop threads)
MaxCalls == 2               \* classification calls of one line-by-line run
MaxSharers == 2             \* request threads of one line-by-line run

ConfidenceFloor == 50       \* 0.1, in units of 1/500
SimConfidence == 400        \* 0.8, in units of 1/500
NotFullTenths == 3          \* 0.3, in tenths
DefaultFullThreshold == 8   \* 0.8, in tenths
DefaultInferenceThreshold == 3

\* The sensor's readings are multiples of ReadingStep grid points, so that
\* the mean of up to five of them (line 173, 194) is a point of the grid.
ReadingStep == 60
Readings == {d * ReadingStep : d \in 1..MaxReading}

\* Reference distances a snapshot may hold: zero, and the points of the
\* worked example full_distance = 10, empty_distance = 100.
CalDistances == {0, 10, 64, 100}
Distances == 0..MaxDistance
Confidences == {0, ConfidenceFloor - 1, ConfidenceFloor, SimConfidence}
FullThresholds == {5, DefaultFullThreshold, 10}

-----------------------------------------------------------------------------
(* ChuteConfig and the calibration snapshot *)

ChuteConfig(n, t) == [inference_threshold |-> n, full_threshold |-> t]

\* has_keys: the dict holds the four keys load_calibration's default has.
CalibrationData(e, f, c) ==
    [empty_distance |-> e, full_distance |-> f, chute_angle_range |-> <<0, 30>>,
     calibrated |-> c, has_keys |-> TRUE]

\* A snapshot that json.load accepts but that lacks the keys (as "{}").
MalformedSnapshot ==
    [empty_distance |-> 0, full_distance |-> 0, chute_angle_range |-> <<0, 30>>,
     calibrated |-> FALSE, has_keys |-> FALSE]

DefaultCalibration == CalibrationData(0, 0, FALSE)

\* The file at config.calibration_file: absent, holding a snapshot that
\* json.load reads, or holding text that json.load rejects.
NoFile == [present |-> FALSE, parses |-> TRUE, data |-> DefaultCalibration]
SavedFile(cal) == [present |-> TRUE, parses |-> TRUE, data |-> cal]
CorruptFile == [present |-> TRUE, parses |-> FALSE, data |-> DefaultCalibration]

ChuteStatus(s, c, t, n, d) ==
    [status |-> s, confidence |-> c, last_scan |-> t,
     consecutive_full_readings |-> n, raw_distance |-> d]

-----------------------------------------------------------------------------
(* determine_chute_status *)

\* A fraction n/m with m # 0, brought to a positive denominator.
Normalise(n, m) == IF m < 0 THEN <<0 - n, 0 - m>> ELSE <<n, m>>

\* max(0.0, min(1.0, fill)) on a fraction with positive denominator.
Clamp(q) ==
    LET lo == IF q[1] >= q[2] THEN <<1, 1>> ELSE q
    IN  IF lo[1] <= 0 THEN <<0, 1>> ELSE lo

\* q >= t/10 for a fraction q with positive denominator.
AtLeastTenths(q, t) == q[1] * 10 >= t * q[2]

Returned(s) == [ret |-> s, divided |-> FALSE, divisor |-> 1]

\* Lines 294-303 with the 0.3 boundary excluded (fill > 0.3).
FillStatusStrict(cal, cfg, d) ==
    LET den == cal.empty_distance - cal.full_distance
        num == d - cal.full_distance
    IN  IF den = 0
        THEN [ret |-> "ZeroDivisionError", divided |-> TRUE, divisor |-> 0]
        ELSE LET fill == Clamp(Normalise(den - num, den))
                 s == IF AtLeastTenths(fill, cfg.full_threshold) THEN "full"
                      ELSE IF fill[1] * 10 > NotFullTenths * fill[2] THEN "not_full"
                      ELSE "empty"
             IN  [ret |-> s, divided |-> TRUE, divisor |-> den]

\* Lines 294-303: the fill fraction and the status it gives.  A zero
\* divisor is Python's ZeroDivisionError.
FillStatus(cal, cfg, d) ==
    LET den == cal.empty_distance - cal.full_distance
        num == d - cal.full_distance
    IN  IF den = 0
        THEN [ret |-> "ZeroDivisionError", divided |-> TRUE, divisor |-> 0]
        ELSE LET fill == Clamp(Normalise(den - num, den))
                 s == IF AtLeastTenths(fill, cfg.full_threshold) THEN "full"
                      ELSE IF AtLeastTenths(fill, NotFullTenths) THEN "not_full"
                      ELSE "empty"
             IN  [ret |-> s, divided |-> TRUE, divisor |-> den]

\* Lines 289-292 with strict comparisons (the edges fall through).
EdgeCasesStrict(cal, cfg, d) ==
    IF d < cal.full_distance THEN Returned("full")
    ELSE IF d > cal.empty_distance THEN Returned("empty")
    ELSE FillStatus(cal, cfg, d)

\* Lines 289-292 without the empty_distance edge case.
EdgeCasesNoEmpty(cal, cfg, d) ==
    IF d <= cal.full_distance THEN Returned("full")
    ELSE FillStatus(cal, cfg, d)

\* Lines 288-303.
EdgeCases(cal, cfg, d) ==
    IF d <= cal.full_distance THEN Returned("full")
    ELSE IF d >= cal.empty_distance THEN Returned("empty")
    ELSE FillStatus(cal, cfg, d)

\* Lines 281-303 without the confidence floor of line 283.
DetermineCallNoFloor(cal, cfg, d, c) ==
    IF ~cal.calibrated THEN Returned("unknown")
    ELSE EdgeCases(cal, cfg, d)

\* The whole call: what it returns, whether it reached the division of
\* line 295 and with which divisor.
DetermineCall(cal, cfg, d, c) ==
    IF ~cal.calibrated THEN Returned("unknown")
    ELSE IF c < ConfidenceFloor THEN Returned("unknown")
    ELSE EdgeCases(cal, cfg, d)

determine_chute_status(cal, cfg, d, c) == DetermineCall(cal, cfg, d, c).ret

-----------------------------------------------------------------------------
(* The classifier applied to one sample *)

NoCall == [ret |-> "none", divided |-> FALSE, divisor |-> 1]

Threads == 1..MaxRequests              \* request threads
LoopThreads == 1..(MaxRequests + 1)    \* loop threads, in order of creation

\* The locals of thread 0 are those of the loop thread's update_status call.
Workers == 0..MaxRequests
LoopWorker == 0

StatusFields ==
    {"status", "confidence", "last_scan", "consecutive_full_readings", "raw_distance"}

\* seen: per field of the snapshot being built, the call whose write was read.
NoRequest ==
    [op |-> "none", pc |-> "idle", target |-> 0, saw |-> FALSE,
     seen |-> [f \in StatusFields |-> 0]]
NoLocals == [d |-> 0, c |-> 0, ns |-> "none", fs |-> "none", id |-> 0]
\* Lines 49-54: no loop thread, no request in flight, self.status as the
\* constructor wrote it (call 0).
NoThreads ==
    /\ monitor_thread = 0
    /\ loops = [t \in LoopThreads |-> "unborn"]
    /\ reqs = [a \in Threads |-> NoRequest]
    /\ local = [w \in Workers |-> NoLocals]
    /\ origin = [f \in StatusFields |-> 0]
    /\ clean = [a \in Threads |-> "no"]

\* No scan_chute call on the connection yet.  attempt and search are the
\* loop indices of lines 229 and 236, frame the bytes of the attempt's frame,
\* fault the kind of the last exception a serial call raised, ret the outcome.
NoScan ==
    [pc |-> "idle", attempt |-> 0, search |-> 0, frame |-> <<>>,
     fault |-> "none", ret |-> [kind |-> "none", d |-> <<0, 1>>, c |-> 0]]

\* No calibration call yet.  n counts the calls, readings are those of the
\* last one.  from_empty, from_full: the reference distance
\* in self.calibration_data was written by a calibration pass that succeeded.
\* cleared: clear-calibration ran and no calibrate_full has succeeded since.
NoCalibration ==
    [op |-> "none", n |-> 0, ret |-> FALSE, readings |-> <<>>,
     from_empty |-> FALSE, from_full |-> FALSE, cleared |-> FALSE]

\* __init__ has returned: self.logger is set (line 61).
Constructed == [pc |-> "done", logger |-> TRUE, raised |-> "none"]

NoCalls ==
    /\ scan = NoScan
    /\ calib = NoCalibration
    /\ ctor = Constructed

\* The monitor as __init__ leaves it, not used by the classifier alone.
IdleMonitor ==
    /\ status = ChuteStatus("unknown", 0, 0, 0, 0)
    /\ lidar = FALSE
    /\ light = "none"
    /\ running = FALSE
    /\ clock = 0
    /\ hist = <<>>
    /\ calibration_file = NoFile
    /\ NoThreads

InitClassify ==
    /\ IdleMonitor
    /\ calibration_data \in
         {CalibrationData(e, f, c) : e \in CalDistances, f \in CalDistances,
                                     c \in BOOLEAN}
    /\ config \in {ChuteConfig(DefaultInferenceThreshold, t) : t \in FullThresholds}
    /\ distance \in Distances
    /\ confidence \in Confidences
    /\ call = NoCall
    /\ pc = "call"
    /\ NoCalls

Classify ==
    /\ pc = "call"
    /\ call' = DetermineCall(calibration_data, config, distance, confidence)
    /\ pc' = "returned"
    /\ UNCHANGED <<calibration_data, config, distance, confidence>>
    /\ UNCHANGED <<monitorVars, callVars>>

NextClassify == Classify

SpecClassify == InitClassify /\ [][NextClassify]_vars

-----------------------------------------------------------------------------
(* Claims about the classifier *)

Classified == pc = "returned" /\ calibration_data.calibrated /\ confidence >= ConfidenceFloor

\* The transition function as section 4.3 states it.  Between the two
\* reference distances fill = (empty - d) / (empty - full) lies strictly
\* between 0 and 1, so the clamp is the identity there.
SpecTransition(e, f, t, d) ==
    IF d <= f THEN "full"
    ELSE IF d >= e THEN "empty"
    ELSE IF 10 * (e - d) >= t * (e - f) THEN "full"
    ELSE IF 10 * (e - d) >= 3 * (e - f) THEN "not_full"
    ELSE "empty"

WorkedExample ==
    /\ calibration_data.full_distance = 10
    /\ calibration_data.empty_distance = 100
    /\ config.full_threshold = 8

\* C2: for every calibrated state with confidence >= 0.1 and every distance,
\* determine_chute_status returns the status of the transition function of
\* section 4.3; with full 10, empty 100, threshold 0.8: 28 is full, 29, 64,
\* 70, 71, 73 are not_full, 74 is empty.
C2_TransitionFunction ==
    Classified =>
        /\ call.ret = SpecTransition(calibration_data.empty_distance,
                                     calibration_data.full_distance,
                                     config.full_threshold, distance)
        /\ distance <= calibration_data.full_distance => call.ret = "full"
        /\ WorkedExample =>
              /\ distance = 28 => call.ret = "full"
              /\ distance \in {29, 64, 70, 71, 73} => call.ret = "not_full"
              /\ distance = 74 => call.ret = "empty"

C2_Witness ==
    Classified /\ WorkedExample /\ distance = 73 /\ call.ret = "not_full"

\* C3 as stated: for every calibrated state with confidence >= 0.1 and every
\* distance d >= empty_distance the classifier returns empty, for all
\* calibration pairs, also those with full_distance >= empty_distance.
C3_EmptyAtOrBeyondEmpty ==
    (Classified /\ distance >= calibration_data.empty_distance)
        => call.ret = "empty"

\* C3 amended: for every calibrated state with confidence >= 0.1 and every
\* distance d with d >= empty_distance and d > full_distance the classifier
\* returns empty (every d >= empty_distance when full_distance <
\* empty_distance); a distance d <= full_distance is full even when
\* d >= empty_distance.
C3_EmptyBeyondBoth ==
    /\ (Classified /\ distance >= calibration_data.empty_distance
                   /\ distance > calibration_data.full_distance)
          => call.ret = "empty"
    /\ (Classified /\ distance >= calibration_data.empty_distance
                   /\ distance <= calibration_data.full_distance)
          => call.ret = "full"

C3_Witness ==
    /\ Classified
    /\ calibration_data.full_distance > calibration_data.empty_distance
    /\ distance > calibration_data.full_distance
    /\ call.ret = "empty"

\* C5: determine_chute_status never divides by zero: for every calibration
\* pair, equal and reversed pairs included, and every distance, the division
\* of line 295 is reached only with a non-zero divisor.
C5_NoDivisionByZero ==
    pc = "returned" =>
        /\ call.divided => call.divisor # 0
        /\ call.ret # "ZeroDivisionError"

C5_Witness ==
    /\ Classified
    /\ calibration_data.empty_distance = calibration_data.full_distance
    /\ distance = calibration_data.full_distance
    /\ ~call.divided

-----------------------------------------------------------------------------
(* The monitor, one operation at a time *)

SnapshotDistances == {ReadingStep, MaxReading * ReadingStep}
SensorConfidences == {ConfidenceFloor - 1, ConfidenceFloor}
InferenceThresholds == 1..MaxInferenceThreshold
ConfigThresholds == {5, DefaultFullThreshold}

\* Lines 218-278: the samples one call may return.  An uncalibrated
\* scheduled scan returns the sentinel (0, 0); without a connection the
\* sample is simulated (a positive distance, confidence 0.8); with one, the
\* decoder returns a frame's sample (distance > 0) or the sentinel.
scan_chute(force_scan, cal, conn) ==
    IF ~force_scan /\ ~cal.calibrated THEN {<<0, 0>>}
    ELSE IF ~conn THEN {<<d, SimConfidence>> : d \in Readings}
    ELSE {<<0, 0>>} \cup {<<d, c>> : d \in Readings, c \in SensorConfidences}

\* Lines 100-137: the colour shown after set_light_color(color).
set_light_color(shown, color) == IF shown = "none" THEN "none" ELSE color

\* Lines 308-315 with the counter never reset.
HysteresisNoReset(st, cfg, ns) ==
    LET n == IF ns = "full" THEN st.consecutive_full_readings + 1
             ELSE st.consecutive_full_readings
    IN  [count |-> n,
         fs |-> IF ns = "full" /\ n >= cfg.inference_threshold
                THEN "needs_attention" ELSE ns]

\* Lines 308-315: the counter and the status to publish.
Hysteresis(st, cfg, ns) ==
    LET n == IF ns = "full" THEN st.consecutive_full_readings + 1 ELSE 0
    IN  [count |-> n,
         fs |-> IF ns = "full" /\ n >= cfg.inference_threshold
                THEN "needs_attention" ELSE ns]

\* Lines 321-325.
LightColour(fs) == IF fs \in {"full", "needs_attention"} THEN "red" ELSE "green"

\* Line 220 (and 281, 358) on a snapshot without its keys: KeyError.
RaisesKeyError(cal) == ~cal.has_keys

\* Lines 305-327: what one completed update_status call does to the monitor.
UpdateStatusBody ==
    /\ \E s \in scan_chute(FALSE, calibration_data, lidar) :
         LET d == s[1]
             c == s[2]
             ns == determine_chute_status(calibration_data, config, d, c)
             h == Hysteresis(status, config, ns)
         IN  /\ status' = ChuteStatus(h.fs, c, clock + 1, h.count, d)
             /\ light' = set_light_color(light, LightColour(h.fs))
             /\ hist' = Append(hist, ns = "full")
    /\ clock' = clock + 1

\* Lines 305-327: one scheduled classification cycle, run by the loop.
update_status ==
    /\ running
    /\ clock < MaxClock
    /\ ~RaisesKeyError(calibration_data)
    /\ UpdateStatusBody
    /\ UNCHANGED <<calibration_data, config, lidar, running, calibration_file>>
    /\ UNCHANGED <<classifyVars, threadVars, callVars>>

\* web_ui.py lines 42-51: a forced scan outside the schedule.
api_scan ==
    /\ clock < MaxClock
    /\ \E s \in scan_chute(TRUE, calibration_data, lidar) :
         status' = [status EXCEPT
                      !.raw_distance = s[1],
                      !.confidence = s[2],
                      !.last_scan = clock + 1,
                      !.status = determine_chute_status(calibration_data, config,
                                                        s[1], s[2])]
    /\ clock' = clock + 1
    /\ UNCHANGED <<calibration_data, config, lidar, light, running, hist, calibration_file>>
    /\ UNCHANGED <<classifyVars, threadVars, callVars>>

\* web_ui.py lines 65-71.
api_update_config ==
    /\ \E n \in InferenceThresholds, t \in ConfigThresholds :
         config' = ChuteConfig(n, t)
    /\ UNCHANGED <<calibration_data, status, lidar, light, running, clock, hist, calibration_file>>
    /\ UNCHANGED <<classifyVars, threadVars, callVars>>

\* The clear-calibration request is on record as the last calibration
\* operation; no reference distance comes from a calibration pass any more.
Cleared(cb) ==
    [cb EXCEPT !.op = "clear", !.ret = TRUE, !.readings = <<>>,
               !.from_empty = FALSE, !.from_full = FALSE, !.cleared = TRUE]

\* web_ui.py lines 75-80 alone: the file is left in place.
ClearKeepsFile ==
    /\ calibration_data' = DefaultCalibration
    /\ calibration_file' = calibration_file
    /\ calib' = Cleared(calib)
    /\ UNCHANGED <<config, status, lidar, light, running, clock, hist, scan, ctor>>
    /\ UNCHANGED <<classifyVars, threadVars>>

\* web_ui.py lines 73-84.
api_clear_calibration ==
    /\ calibration_data' = DefaultCalibration
    /\ calibration_file' = NoFile
    /\ calib' = Cleared(calib)
    /\ UNCHANGED <<config, status, lidar, light, running, clock, hist, scan, ctor>>
    /\ UNCHANGED <<classifyVars, threadVars>>

\* Lines 329-334, with the loop thread alive exactly while running.
start_monitoring ==
    /\ running' = TRUE
    /\ UNCHANGED <<calibration_data, config, status, lidar, light, clock, hist, calibration_file>>
    /\ UNCHANGED <<classifyVars, threadVars, callVars>>

\* Lines 336-340.
stop_monitoring ==
    /\ running' = FALSE
    /\ UNCHANGED <<calibration_data, config, status, lidar, light, clock, hist, calibration_file>>
    /\ UNCHANGED <<classifyVars, threadVars, callVars>>

\* Lines 139-151, for a file that is absent or parses.
load_calibration(file) == IF file.present THEN file.data ELSE DefaultCalibration

\* Lines 47-64: the monitor after construction.  The snapshot is the default
\* (no file) or what load_calibration read from the file.
Init ==
    /\ calibration_file \in
         {NoFile} \cup
         {SavedFile(CalibrationData(e, f, TRUE)) :
             e \in SnapshotDistances, f \in SnapshotDistances}
    /\ calibration_data = load_calibration(calibration_file)
    /\ config \in {ChuteConfig(n, DefaultFullThreshold) : n \in InferenceThresholds}
    /\ status = ChuteStatus("unknown", 0, 0, 0, 0)
    /\ lidar \in BOOLEAN
    /\ light \in {"none", "off"}
    /\ running = FALSE
    /\ clock = 0
    /\ hist = <<>>
    /\ NoThreads
    /\ distance = 0
    /\ confidence = 0
    /\ call = NoCall
    /\ pc = "idle"
    /\ NoCalls

Next ==
    \/ update_status
    \/ api_scan
    \/ api_update_config
    \/ api_clear_calibration
    \/ start_monitoring
    \/ stop_monitoring

Spec == Init /\ [][Next]_vars

-----------------------------------------------------------------------------
(* Claims about the classification cycle *)

RECURSIVE TrailingFull(_)
\* The number of consecutive full classifications that end the history.
TrailingFull(h) ==
    IF h = <<>> \/ ~h[Len(h)] THEN 0
    ELSE 1 + TrailingFull(SubSeq(h, 1, Len(h) - 1))

ScheduledCycle == Len(hist') = Len(hist) + 1
ForcedScan == clock' = clock + 1 /\ hist' = hist

\* C1: on every scheduled cycle the published status is needs_attention
\* exactly when the cycle's fresh classification is full and it is at least
\* the N-th consecutive full one (N = inference_threshold); a non-full
\* classification resets consecutive_full_readings to 0, so a single full
\* sample after it publishes full when N > 1; the counter is the length of
\* the run of full classifications, uncapped.
C1_Hysteresis ==
    [][ScheduledCycle =>
          LET k == TrailingFull(hist')
              fresh_full == hist'[Len(hist')]
          IN  /\ status'.consecutive_full_readings = k
              /\ status'.status = "needs_attention"
                   <=> (fresh_full /\ k >= config.inference_threshold)
              /\ ~fresh_full => status'.consecutive_full_readings = 0
              /\ (k = 1 /\ config.inference_threshold > 1)
                   => status'.status = "full"]_vars

C1_Witness ==
    /\ hist = <<TRUE, TRUE, FALSE, TRUE>>
    /\ config.inference_threshold = 2
    /\ status.status = "full"
    /\ status.consecutive_full_readings = 1
    /\ status.last_scan = Len(hist)

\* C4: while calibrated is false or the sample's confidence is below 0.1 the
\* classifier returns unknown for every distance, in a scheduled cycle and in
\* a forced scan; a scheduled cycle run while uncalibrated publishes unknown
\* and resets consecutive_full_readings to 0.
C4_UnknownWhenUncalibratedOrWeak ==
    [][/\ (ScheduledCycle \/ ForcedScan)
          => ((~calibration_data.calibrated \/ status'.confidence < ConfidenceFloor)
                => status'.status = "unknown")
       /\ (ScheduledCycle /\ ~calibration_data.calibrated)
          => (status'.status = "unknown"
              /\ status'.consecutive_full_readings = 0)]_vars

C4_Witness ==
    /\ ~calibration_data.calibrated
    /\ hist = <<TRUE, FALSE>>
    /\ clock = Len(hist)
    /\ status.last_scan = clock
    /\ status.consecutive_full_readings = 0
    /\ status.status = "unknown"

-----------------------------------------------------------------------------
(* The monitoring loop and the start and stop requests, line by line.      *)
(* Flask serves each request on a thread of its own, so the handlers of    *)
(* web_ui.py interleave with each other and with the loop thread at every  *)
(* attribute read and write.                                               *)

LifecycleOps == {"start", "stop"}

Alive(t) == loops[t] \in {"check", "cycle", "backoff"}

\* Request threads are taken in order of their ids.
Invoked(a) == reqs[a].pc # "idle"
MayInvoke(a) == ~Invoked(a) /\ \A b \in Threads : b < a => Invoked(b)

FirstLine(op) ==
    CASE op = "start" -> "start_check"
      [] op = "stop" -> "stop_set"

StartInFlight ==
    \E b \in Threads :
        reqs[b].op = "start" /\ reqs[b].pc \notin {"idle", "returned", "raised"}

\* A stop call that returns is clean when no start call was in flight at its
\* invocation and none was invoked since.
CleanReturn(a) ==
    [clean EXCEPT ![a] = IF clean[a] = "pending" THEN "yes" ELSE "no"]

\* Flask hands a request to its handler (web_ui.py lines 32-40).
Invoke(a) ==
    /\ MayInvoke(a)
    /\ \E op \in LifecycleOps :
         /\ reqs' = [reqs EXCEPT ![a] = [NoRequest EXCEPT !.op = op,
                                                          !.pc = FirstLine(op)]]
         /\ clean' = CASE op = "start" -> [b \in Threads |-> "no"]
                        [] op = "stop" /\ ~StartInFlight ->
                             [clean EXCEPT ![a] = "pending"]
                        [] OTHER -> clean
    /\ UNCHANGED <<calibration_data, config, status, lidar, light, running, clock,
                   hist, calibration_file, monitor_thread, loops, local, origin>>
    /\ UNCHANGED <<classifyVars, callVars>>

Return(a) == [reqs EXCEPT ![a].pc = "returned"]
Goto(a, line) == [reqs EXCEPT ![a].pc = line]

\* Line 330 without the test of self.running.
StartCheckAlways(a) ==
    /\ reqs[a].pc = "start_check"
    /\ reqs' = [reqs EXCEPT ![a].pc = "start_set", ![a].saw = running]
    /\ UNCHANGED <<calibration_data, config, status, lidar, light, running, clock,
                   hist, calibration_file, monitor_thread, loops, local, origin,
                   clean>>
    /\ UNCHANGED <<classifyVars, callVars>>

\* Line 330: if self.running: return.
StartCheck(a) ==
    /\ reqs[a].pc = "start_check"
    /\ reqs' = [reqs EXCEPT ![a].pc = IF running THEN "returned" ELSE "start_set",
                            ![a].saw = running]
    /\ UNCHANGED <<calibration_data, config, status, lidar, light, running, clock,
                   hist, calibration_file, monitor_thread, loops, local, origin,
                   clean>>
    /\ UNCHANGED <<classifyVars, callVars>>

\* Line 331: self.running = True.
StartSet(a) ==
    /\ reqs[a].pc = "start_set"
    /\ running' = TRUE
    /\ reqs' = Goto(a, "start_create")
    /\ UNCHANGED <<calibration_data, config, status, lidar, light, clock, hist,
                   calibration_file, monitor_thread, loops, local, origin, clean>>
    /\ UNCHANGED <<classifyVars, callVars>>

\* Line 332: self.monitor_thread = threading.Thread(...), not yet started.
StartCreate(a) ==
    /\ reqs[a].pc = "start_create"
    /\ \E t \in LoopThreads :
         /\ loops[t] = "unborn"
         /\ \A u \in LoopThreads : u < t => loops[u] # "unborn"
         /\ monitor_thread' = t
         /\ loops' = [loops EXCEPT ![t] = "created"]
    /\ reqs' = Goto(a, "start_thread")
    /\ UNCHANGED <<calibration_data, config, status, lidar, light, running, clock,
                   hist, calibration_file, local, origin, clean>>
    /\ UNCHANGED <<classifyVars, callVars>>

\* Line 333: self.monitor_thread.start(), on whichever thread the attribute
\* holds now; starting a started thread raises RuntimeError.
StartThread(a) ==
    /\ reqs[a].pc = "start_thread"
    /\ IF loops[monitor_thread] = "created"
       THEN /\ loops' = [loops EXCEPT ![monitor_thread] = "check"]
            /\ reqs' = Return(a)
       ELSE /\ loops' = loops
            /\ reqs' = Goto(a, "raised")
    /\ UNCHANGED <<calibration_data, config, status, lidar, light, running, clock,
                   hist, calibration_file, monitor_thread, local, origin, clean>>
    /\ UNCHANGED <<classifyVars, callVars>>

\* Line 337: self.running = False.  saw keeps the value it overwrote.
StopSet(a) ==
    /\ reqs[a].pc = "stop_set"
    /\ running' = FALSE
    /\ reqs' = [reqs EXCEPT ![a].pc = "stop_join", ![a].saw = running]
    /\ UNCHANGED <<calibration_data, config, status, lidar, light, clock, hist,
                   calibration_file, monitor_thread, loops, local, origin, clean>>
    /\ UNCHANGED <<classifyVars, callVars>>

\* Lines 338-339: if self.monitor_thread: self.monitor_thread.join().  The
\* attribute, once a thread, is never None again, so the test and the read
\* that join() is called on act as one read; join() then waits for that
\* thread, and raises RuntimeError on a thread not yet started.
StopJoin(a) ==
    /\ reqs[a].pc = "stop_join"
    /\ reqs' = IF monitor_thread = 0 THEN Return(a)
               ELSE IF loops[monitor_thread] = "created" THEN Goto(a, "raised")
               ELSE [reqs EXCEPT ![a].pc = "stop_joining",
                                 ![a].target = monitor_thread]
    /\ clean' = IF monitor_thread = 0 THEN CleanReturn(a) ELSE clean
    /\ UNCHANGED <<calibration_data, config, status, lidar, light, running, clock,
                   hist, calibration_file, monitor_thread, loops, local, origin>>
    /\ UNCHANGED <<classifyVars, callVars>>

\* Lines 339-340: join() returns once the joined thread has ended.
StopJoined(a) ==
    /\ reqs[a].pc = "stop_joining"
    /\ loops[reqs[a].target] = "exited"
    /\ reqs' = Return(a)
    /\ clean' = CleanReturn(a)
    /\ UNCHANGED <<calibration_data, config, status, lidar, light, running, clock,
                   hist, calibration_file, monitor_thread, loops, local, origin>>
    /\ UNCHANGED <<classifyVars, callVars>>

\* Line 343: while self.running, on entry and after the sleep of line 346
\* or 349 has ended.
LoopCheck(t) ==
    /\ loops[t] \in {"check", "backoff"}
    /\ loops' = [loops EXCEPT ![t] = IF running THEN "cycle" ELSE "exited"]
    /\ UNCHANGED <<calibration_data, config, status, lidar, light, running, clock,
                   hist, calibration_file, monitor_thread, reqs, local, origin,
                   clean>>
    /\ UNCHANGED <<classifyVars, callVars>>

\* Lines 344-348 without the except clause: the exception ends the thread.
LoopCyclePropagates(t) ==
    /\ loops[t] = "cycle"
    /\ clock < MaxClock
    /\ IF RaisesKeyError(calibration_data)
       THEN /\ loops' = [loops EXCEPT ![t] = "exited"]
            /\ UNCHANGED <<status, light, hist, clock>>
       ELSE /\ UpdateStatusBody
            /\ loops' = [loops EXCEPT ![t] = "check"]
    /\ UNCHANGED <<calibration_data, config, lidar, running, calibration_file,
                   monitor_thread, reqs, local, origin, clean>>
    /\ UNCHANGED <<classifyVars, callVars>>

\* Lines 344-349: one update_status call, then the sleep of line 346 begins;
\* an exception it raises is caught and logged and the back-off of line 349
\* begins.
LoopCycle(t) ==
    /\ loops[t] = "cycle"
    /\ clock < MaxClock
    /\ IF RaisesKeyError(calibration_data)
       THEN /\ loops' = [loops EXCEPT ![t] = "backoff"]
            /\ UNCHANGED <<status, light, hist, clock>>
       ELSE /\ UpdateStatusBody
            /\ loops' = [loops EXCEPT ![t] = "check"]
    /\ UNCHANGED <<calibration_data, config, lidar, running, calibration_file,
                   monitor_thread, reqs, local, origin, clean>>
    /\ UNCHANGED <<classifyVars, callVars>>

\* web_ui.py lines 11-12: the monitor constructed, with no snapshot file or
\* with one that parses but lacks the keys, and start_monitoring called once
\* before any request is served.
InitLifecycle ==
    /\ calibration_file \in {NoFile, SavedFile(MalformedSnapshot)}
    /\ calibration_data = load_calibration(calibration_file)
    /\ config = ChuteConfig(DefaultInferenceThreshold, DefaultFullThreshold)
    /\ status = ChuteStatus("unknown", 0, 0, 0, 0)
    /\ lidar = FALSE
    /\ light = "off"
    /\ running = TRUE
    /\ clock = 0
    /\ hist = <<>>
    /\ monitor_thread = 1
    /\ loops = [t \in LoopThreads |-> IF t = 1 THEN "check" ELSE "unborn"]
    /\ reqs = [a \in Threads |-> NoRequest]
    /\ local = [w \in Workers |-> NoLocals]
    /\ origin = [f \in StatusFields |-> 0]
    /\ clean = [a \in Threads |-> "no"]
    /\ distance = 0
    /\ confidence = 0
    /\ call = NoCall
    /\ pc = "idle"
    /\ NoCalls

RequestStep(a) ==
    \/ Invoke(a)
    \/ StartCheck(a)
    \/ StartSet(a)
    \/ StartCreate(a)
    \/ StartThread(a)
    \/ StopSet(a)
    \/ StopJoin(a)
    \/ StopJoined(a)

_monitor_loop(t) ==
    \/ LoopCheck(t)
    \/ LoopCycle(t)

NextLifecycle ==
    \/ \E a \in Threads : RequestStep(a)
    \/ \E t \in LoopThreads : _monitor_loop(t)

SpecLifecycle == InitLifecycle /\ [][NextLifecycle]_vars

-----------------------------------------------------------------------------
(* The status record shared by the loop and the requests, line by line.    *)
(* One loop thread runs update_status; request threads run api_scan and    *)
(* api_status.  No lock guards self.status or the serial connection, so    *)
(* each attribute read and write is a step of its own.                     *)

\* The samples the sensor delivers here: none (the sentinel), or one that
\* classifies full.
SharedSamples == {<<0, 0>>, <<ReadingStep, ConfidenceFloor>>}

\* Request thread a may be handed a request for /api/scan or /api/status.
MayShare(a) == a <= MaxSharers /\ MayInvoke(a)

\* Lines 219-225: scan_chute returns without touching the serial port when
\* the monitor is uncalibrated and the scan not forced, or when there is no
\* connection.
Immediate(force_scan) == (~force_scan /\ ~calibration_data.calibrated) \/ ~lidar

\* Lines 218-225 of a scan_chute call by worker w: the call takes the next
\* call number; it returns at once with the sentinel or a simulated sample,
\* or goes on to the serial reads of lines 229-266.
ScanEntry(w, force_scan) ==
    LET id == clock + 1
    IN  /\ clock < MaxCalls
        /\ clock' = id
        /\ IF Immediate(force_scan)
           THEN \E s \in scan_chute(force_scan, calibration_data, lidar) :
                  local' = [local EXCEPT ![w] =
                              [NoLocals EXCEPT !.id = id, !.d = s[1], !.c = s[2]]]
           ELSE local' = [local EXCEPT ![w] = [NoLocals EXCEPT !.id = id]]

\* Lines 229-278: the serial reads end and scan_chute returns its sample.
ScanExit(w, force_scan) ==
    \E s \in scan_chute(force_scan, calibration_data, lidar) \cap SharedSamples :
        local' = [local EXCEPT ![w].d = s[1], ![w].c = s[2]]

\* One field of self.status written by the call of worker w.
WriteField(w, f, v) ==
    /\ status' = [status EXCEPT ![f] = v]
    /\ origin' = [origin EXCEPT ![f] = local[w].id]

LoopAt(line) == loops[1] = line
LoopGoto(line) == loops' = [loops EXCEPT ![1] = line]

\* Line 343 (after the sleep of line 346, if any) and line 306 up to the
\* serial reads.
LoopScanCall ==
    /\ LoopAt("check")
    /\ running
    /\ ScanEntry(LoopWorker, FALSE)
    /\ LoopGoto(IF Immediate(FALSE) THEN "classify" ELSE "scanning")
    /\ UNCHANGED <<calibration_data, config, status, lidar, light, running, hist,
                   calibration_file, monitor_thread, reqs, origin, clean>>
    /\ UNCHANGED <<classifyVars, callVars>>

\* Line 306: scan_chute returns.
LoopScanReturn ==
    /\ LoopAt("scanning")
    /\ ScanExit(LoopWorker, FALSE)
    /\ LoopGoto("classify")
    /\ UNCHANGED <<calibration_data, config, status, lidar, light, running, clock,
                   hist, calibration_file, monitor_thread, reqs, origin, clean>>
    /\ UNCHANGED <<classifyVars, callVars>>

\* Lines 307-315: classify, move the counter, choose the status to publish.
LoopClassify ==
    /\ LoopAt("classify")
    /\ LET me == local[LoopWorker]
           ns == determine_chute_status(calibration_data, config, me.d, me.c)
           h == Hysteresis(status, config, ns)
       IN  /\ WriteField(LoopWorker, "consecutive_full_readings", h.count)
           /\ local' = [local EXCEPT ![LoopWorker].ns = ns, ![LoopWorker].fs = h.fs]
           /\ hist' = Append(hist, ns = "full")
    /\ LoopGoto("publish_status")
    /\ UNCHANGED <<calibration_data, config, lidar, light, running, clock,
                   calibration_file, monitor_thread, reqs, clean>>
    /\ UNCHANGED <<classifyVars, callVars>>

\* The field each publishing line writes, its value, and the line after it.
LoopPublishes ==
    [publish_status |-> <<"status", local[LoopWorker].fs, "publish_confidence">>,
     publish_confidence |-> <<"confidence", local[LoopWorker].c, "publish_time">>,
     publish_time |-> <<"last_scan", clock, "publish_distance">>,
     publish_distance |-> <<"raw_distance", local[LoopWorker].d, "light">>]

\* Lines 316-319, one assignment at a time.
LoopPublish ==
    /\ loops[1] \in DOMAIN LoopPublishes
    /\ LET w == LoopPublishes[loops[1]]
       IN  /\ WriteField(LoopWorker, w[1], w[2])
           /\ LoopGoto(w[3])
    /\ UNCHANGED <<calibration_data, config, lidar, light, running, clock, hist,
                   calibration_file, monitor_thread, reqs, local, clean>>
    /\ UNCHANGED <<classifyVars, callVars>>

\* Lines 322-327 and the start of the sleep of line 346.
LoopLight ==
    /\ LoopAt("light")
    /\ light' = set_light_color(light, LightColour(local[LoopWorker].fs))
    /\ LoopGoto("check")
    /\ UNCHANGED <<calibration_data, config, status, lidar, running, clock, hist,
                   calibration_file, monitor_thread, reqs, local, origin, clean>>
    /\ UNCHANGED <<classifyVars, callVars>>

\* web_ui.py lines 42-45 up to the serial reads.
ApiScanCall(a) ==
    /\ MayShare(a)
    /\ ScanEntry(a, TRUE)
    /\ reqs' = [reqs EXCEPT ![a] =
                  [NoRequest EXCEPT !.op = "scan",
                                    !.pc = IF Immediate(TRUE) THEN "write_distance"
                                           ELSE "scanning"]]
    /\ UNCHANGED <<calibration_data, config, status, lidar, light, running, hist,
                   calibration_file, monitor_thread, loops, origin, clean>>
    /\ UNCHANGED <<classifyVars, callVars>>

\* web_ui.py line 45: scan_chute returns.
ApiScanReturn(a) ==
    /\ reqs[a].pc = "scanning"
    /\ ScanExit(a, TRUE)
    /\ reqs' = Goto(a, "write_distance")
    /\ UNCHANGED <<calibration_data, config, status, lidar, light, running, clock,
                   hist, calibration_file, monitor_thread, loops, origin, clean>>
    /\ UNCHANGED <<classifyVars, callVars>>

ApiScanWrites(a) ==
    [write_distance |-> <<"raw_distance", local[a].d, "write_confidence">>,
     write_confidence |-> <<"confidence", local[a].c, "write_time">>,
     write_time |-> <<"last_scan", clock, "write_status">>,
     write_status |-> <<"status",
                        determine_chute_status(calibration_data, config,
                                               local[a].d, local[a].c),
                        "read_status">>]

\* web_ui.py lines 46-50, one assignment at a time (the status of line 46
\* is a function of the sample and of the calibration and configuration, which
\* no step here changes); line 51 then builds the snapshot.
ApiScanWrite(a) ==
    /\ reqs[a].pc \in DOMAIN ApiScanWrites(a)
    /\ LET w == ApiScanWrites(a)[reqs[a].pc]
       IN  /\ WriteField(a, w[1], w[2])
           /\ reqs' = Goto(a, w[3])
    /\ UNCHANGED <<calibration_data, config, lidar, light, running, clock, hist,
                   calibration_file, monitor_thread, loops, local, clean>>
    /\ UNCHANGED <<classifyVars, callVars>>

\* The field each line of get_status_json reads, and the line after it; a
\* request for /api/status starts at the first.
StatusReads ==
    [idle |-> <<"status", "read_confidence">>,
     read_status |-> <<"status", "read_confidence">>,
     read_confidence |-> <<"confidence", "read_time">>,
     read_time |-> <<"last_scan", "read_counter">>,
     read_counter |-> <<"consecutive_full_readings", "read_distance">>,
     read_distance |-> <<"raw_distance", "returned">>]

\* Lines 351-360, one attribute read at a time (lines 358-359 read no field
\* of self.status).
get_status_json(a) ==
    /\ reqs[a].pc \in DOMAIN StatusReads
    /\ reqs[a].pc = "idle" => MayShare(a)
    /\ LET r == StatusReads[reqs[a].pc]
       IN  reqs' = [reqs EXCEPT ![a].pc = r[2],
                                ![a].op = IF @ = "none" THEN "status" ELSE @,
                                ![a].seen = [@ EXCEPT ![r[1]] = origin[r[1]]]]
    /\ UNCHANGED <<calibration_data, config, status, lidar, light, running, clock,
                   hist, calibration_file, monitor_thread, loops, local, origin,
                   clean>>
    /\ UNCHANGED <<classifyVars, callVars>>

\* web_ui.py lines 11-12 with a calibrated snapshot on file and the sensor
\* connected: the loop thread started, no request served yet.
InitSharing ==
    /\ calibration_file =
         SavedFile(CalibrationData(MaxReading * ReadingStep, ReadingStep, TRUE))
    /\ calibration_data = load_calibration(calibration_file)
    /\ config = ChuteConfig(DefaultInferenceThreshold, DefaultFullThreshold)
    /\ status = ChuteStatus("unknown", 0, 0, 0, 0)
    /\ lidar = TRUE
    /\ light = "off"
    /\ running = TRUE
    /\ clock = 0
    /\ hist = <<>>
    /\ monitor_thread = 1
    /\ loops = [t \in LoopThreads |-> IF t = 1 THEN "check" ELSE "unborn"]
    /\ reqs = [a \in Threads |-> NoRequest]
    /\ local = [w \in Workers |-> NoLocals]
    /\ origin = [f \in StatusFields |-> 0]
    /\ clean = [a \in Threads |-> "no"]
    /\ distance = 0
    /\ confidence = 0
    /\ call = NoCall
    /\ pc = "idle"
    /\ NoCalls

NextSharing ==
    \/ LoopScanCall
    \/ LoopScanReturn
    \/ LoopClassify
    \/ LoopPublish
    \/ LoopLight
    \/ \E a \in Threads :
         \/ ApiScanCall(a)
         \/ ApiScanReturn(a)
         \/ ApiScanWrite(a)
         \/ get_status_json(a)

SpecSharing == InitSharing /\ [][NextSharing]_vars

-----------------------------------------------------------------------------
(* Claims about the shared record and the connection *)

\* C6: the snapshot a request thread gets from get_status_json is complete
\* and self-consistent: its status, confidence, last_scan,
\* consecutive_full_readings and raw_distance were all written by one and the
\* same classification call (or all by the constructor).
C6_SnapshotFromOneCycle ==
    \A a \in Threads :
        reqs[a].pc = "returned" =>
            \A f, g \in StatusFields : reqs[a].seen[f] = reqs[a].seen[g]

Scanning ==
    {w \in Workers : IF w = LoopWorker THEN loops[1] = "scanning"
                     ELSE reqs[w].pc = "scanning"}

\* C7: hardware access is serialized: at most one scan_chute call is inside
\* its serial reads on the lidar connection at any time.
C7_AcquisitionSerialized == Cardinality(Scanning) <= 1

-----------------------------------------------------------------------------
(* Claims about starting, stopping and the loop *)

Observable ==
    <<running, status, calibration_data, calibration_file, config, light,
      monitor_thread, loops>>

\* C8: start_monitoring called while running is true returns at line 330:
\* it creates no thread and changes no observable state; stop_monitoring
\* called while running is false changes no observable state (line 337
\* rewrites false, and no later line of it writes anything).
C8_StartStopIdempotent ==
    [][\A a \in Threads :
         /\ (reqs[a].pc = "start_check" /\ reqs'[a] # reqs[a] /\ running)
              => (reqs'[a].pc = "returned" /\ UNCHANGED Observable)
         /\ (reqs[a].op = "stop" /\ reqs'[a] # reqs[a]
                /\ (reqs[a].pc = "stop_set" => ~running))
              => UNCHANGED Observable]_vars

C8_Witness ==
    \E a, b \in Threads :
        /\ reqs[a].op = "start" /\ reqs[a].pc = "returned" /\ reqs[a].saw
        /\ reqs[b].op = "stop" /\ reqs[b].pc = "returned" /\ ~reqs[b].saw

\* C9: once a stop_monitoring call has returned (no start call in flight
\* when it was invoked, none invoked since), running is false and every
\* loop thread has observed the stop and ended, so that no classification
\* cycle follows.
C9_StopReturnsAfterLoopExit ==
    \A a \in Threads :
        clean[a] = "yes" => (~running /\ \A t \in LoopThreads : ~Alive(t))

\* C10: an exception raised by update_status never ends the loop thread:
\* the loop backs off, and after the back-off it runs another cycle if
\* running is still true; a loop thread ends only at line 343, on reading
\* running = false.
C10_LoopSurvivesFailure ==
    [][\A t \in LoopThreads :
         /\ (loops[t] = "cycle" /\ loops'[t] # "cycle")
              => loops'[t] = IF RaisesKeyError(calibration_data)
                             THEN "backoff" ELSE "check"
         /\ (loops[t] = "backoff" /\ loops'[t] # "backoff")
              => loops'[t] = IF running THEN "cycle" ELSE "exited"
         /\ (loops[t] # "exited" /\ loops'[t] = "exited")
              => (loops[t] \in {"check", "backoff"} /\ ~running)]_vars

C10_Witness ==
    \E t \in LoopThreads :
        /\ loops[t] = "backoff"
        /\ running
        /\ RaisesKeyError(calibration_data)

-----------------------------------------------------------------------------
(* scan_chute on the serial connection, one serial call at a time.         *)
(* The port is opened with timeout=1 (line 72): read(n) returns within a   *)
(* second with at most n bytes, or raises.  A distance in inches is kept   *)
(* as a fraction <<numerator, denominator>>, confidence in units of 1/500. *)

Attempts == 5           \* line 229: range(5)
HeaderSearches == 10    \* line 236: range(10)
PayloadBytes == 7       \* line 248: read(7)
HeaderByte == 89        \* 0x59
StrengthScale == 500    \* line 262: strength / 500.0
MaxInches == 2000       \* line 265: distance < 2000

\* What read(1) may deliver during the header search: nothing within the
\* timeout, a header byte, or another byte.
OneByteReads == {<<>>, <<HeaderByte>>, <<0>>}

\* Line 253: sum(frame[:8]) & 0xFF, for the header and six payload bytes.
Checksum(p) == (2 * HeaderByte + p[1] + p[2] + p[3] + p[4] + p[5] + p[6]) % 256

\* The first six bytes a full payload may hold: distance 0, 1, 5120 or 5121,
\* strength 49, 50, 561 or 562, two temperature bytes.
PayloadHeads ==
    {<<dl, dh, sl, sh, tl, 0>> :
        dl \in {0, 1}, dh \in {0, 20}, sl \in {49, 50}, sh \in {0, 2},
        tl \in {0, HeaderByte}}

\* What read(7) may deliver: fewer than 7 bytes within the timeout, or 7
\* bytes whose last is the checksum of the frame or is off by one.
PayloadReads ==
    {<<>>, <<1, 0, 50, 0, 0, 0>>}
    \cup {Append(p, Checksum(p)) : p \in PayloadHeads}
    \cup {Append(p, (Checksum(p) + 1) % 256) : p \in PayloadHeads}

\* The exceptions a serial call may raise: one whose message holds "device
\* disconnected" or "multiple access" (line 269), or any other.
SerialErrors == {"transient", "fatal"}

Sentinel == [kind |-> "return", d |-> <<0, 1>>, c |-> 0]
Sample(d, c) == [kind |-> "return", d |-> d, c |-> c]

\* Lines 257 and 261: dist_cm from bytes 2-3, then * 10.0 / 25.4.
DistCm(frame) == frame[3] + 256 * frame[4]
ToInches(dist_cm) == <<dist_cm * 100, 254>>

\* Lines 258 and 262: strength from bytes 4-5, min(max(strength / 500, 0), 1).
Strength(frame) == frame[5] + 256 * frame[6]
ToConfidence(strength) ==
    IF strength > StrengthScale THEN StrengthScale
    ELSE IF strength < 0 THEN 0 ELSE strength

\* Line 253.
ChecksumOk(frame) ==
    (frame[1] + frame[2] + frame[3] + frame[4] + frame[5] + frame[6]
       + frame[7] + frame[8]) % 256 = frame[9]

\* Line 265: 0 < distance < 2000.
Reasonable(q) == q[1] > 0 /\ q[1] < MaxInches * q[2]

decodeFrame == <<calibration_data, config, distance, confidence, call, pc,
                 status, lidar, light, running, clock, hist, calibration_file,
                 monitor_thread, loops, reqs, local, origin, clean, calib, ctor>>

\* Line 229 as "while True": a failed attempt is always followed by another.
NextAttemptForever(sc) == [sc EXCEPT !.pc = "reset"]

\* continue at line 245, 250, 255 or 270, or the end of the body of the
\* loop of line 229: the next attempt, or line 275 after the last one.
NextAttempt(sc) ==
    IF sc.attempt + 1 < Attempts
    THEN [sc EXCEPT !.pc = "reset", !.attempt = @ + 1]
    ELSE [sc EXCEPT !.pc = "done", !.ret = Sentinel]

\* The next iteration of the header search of line 236, or line 244 after
\* the last one.
NextSearch(sc) ==
    IF sc.search + 1 < HeaderSearches
    THEN [sc EXCEPT !.pc = "b1", !.search = @ + 1]
    ELSE NextAttempt(sc)

\* Lines 267-278: a serial call raised e.  Line 270 goes on to the next
\* attempt; line 272 raises again, and lines 276-278 catch that, log it and
\* return (0.0, 0.0).
SerialRaises(sc, e) ==
    IF e = "transient" THEN NextAttempt([sc EXCEPT !.fault = e])
    ELSE [sc EXCEPT !.pc = "done", !.fault = e, !.ret = Sentinel]

\* Simulated distances (line 216: random.uniform(180, 1000)), the ends of
\* the range.
SimDistances == {180, 1000}

\* Lines 218-229: the gate of line 220, the simulated sample of lines
\* 222-225, or the first attempt on the connection.
ScanBegin ==
    /\ scan.pc = "idle"
    /\ \E force_scan \in BOOLEAN :
         IF ~force_scan /\ ~calibration_data.calibrated
         THEN scan' = [scan EXCEPT !.pc = "done", !.ret = Sample(<<0, 1>>, 0)]
         ELSE IF ~lidar
         THEN \E r \in SimDistances :
                scan' = [scan EXCEPT !.pc = "done",
                                     !.ret = Sample(<<r, 1>>, SimConfidence)]
         ELSE scan' = [scan EXCEPT !.pc = "reset"]
    /\ UNCHANGED decodeFrame

\* Line 232: reset_input_buffer(), then the header search starts (235-236).
ScanReset ==
    /\ scan.pc = "reset"
    /\ \/ scan' = [scan EXCEPT !.pc = "b1", !.search = 0, !.frame = <<>>]
       \/ \E e \in SerialErrors : scan' = SerialRaises(scan, e)
    /\ UNCHANGED decodeFrame

\* Lines 237-238: b1 = read(1).
ReadB1 ==
    /\ scan.pc = "b1"
    /\ \/ \E b1 \in OneByteReads :
            scan' = IF b1 = <<HeaderByte>> THEN [scan EXCEPT !.pc = "b2"]
                    ELSE NextSearch(scan)
       \/ \E e \in SerialErrors : scan' = SerialRaises(scan, e)
    /\ UNCHANGED decodeFrame

\* Lines 239-242: b2 = read(1); two header bytes in a row end the search.
ReadB2 ==
    /\ scan.pc = "b2"
    /\ \/ \E b2 \in OneByteReads :
            scan' = IF b2 = <<HeaderByte>>
                    THEN [scan EXCEPT !.pc = "payload",
                                      !.frame = <<HeaderByte, HeaderByte>>]
                    ELSE NextSearch(scan)
       \/ \E e \in SerialErrors : scan' = SerialRaises(scan, e)
    /\ UNCHANGED decodeFrame

\* Lines 249-266 with the checksum never tested.
DecodeUnchecked(sc, payload) ==
    LET frame == sc.frame \o payload
        got == [sc EXCEPT !.frame = frame]
    IN  IF Len(payload) # PayloadBytes THEN NextAttempt(got)
        ELSE LET d == ToInches(DistCm(frame))
                 c == ToConfidence(Strength(frame))
             IN  IF Reasonable(d)
                 THEN [got EXCEPT !.pc = "done", !.ret = Sample(d, c)]
                 ELSE NextAttempt(got)

\* Lines 249-266: the frame of the payload read, its checksum, its sample.
Decode(sc, payload) ==
    LET frame == sc.frame \o payload
        got == [sc EXCEPT !.frame = frame]
    IN  IF Len(payload) # PayloadBytes THEN NextAttempt(got)
        ELSE IF ~ChecksumOk(frame) THEN NextAttempt(got)
        ELSE LET d == ToInches(DistCm(frame))
                 c == ToConfidence(Strength(frame))
             IN  IF Reasonable(d)
                 THEN [got EXCEPT !.pc = "done", !.ret = Sample(d, c)]
                 ELSE NextAttempt(got)

\* Lines 248-266: payload = read(7) and what is made of it.
ReadPayload ==
    /\ scan.pc = "payload"
    /\ \/ \E payload \in PayloadReads : scan' = Decode(scan, payload)
       \/ \E e \in SerialErrors : scan' = SerialRaises(scan, e)
    /\ UNCHANGED decodeFrame

\* The monitor constructed, with or without a connection and a calibration;
\* one scan_chute call is made.
InitDecode ==
    /\ calibration_data \in
         {DefaultCalibration,
          CalibrationData(MaxReading * ReadingStep, ReadingStep, TRUE)}
    /\ calibration_file = NoFile
    /\ config = ChuteConfig(DefaultInferenceThreshold, DefaultFullThreshold)
    /\ status = ChuteStatus("unknown", 0, 0, 0, 0)
    /\ lidar \in BOOLEAN
    /\ light = "off"
    /\ running = FALSE
    /\ clock = 0
    /\ hist = <<>>
    /\ NoThreads
    /\ distance = 0
    /\ confidence = 0
    /\ call = NoCall
    /\ pc = "idle"
    /\ NoCalls

NextDecode ==
    \/ ScanBegin
    \/ ScanReset
    \/ ReadB1
    \/ ReadB2
    \/ ReadPayload

\* Every serial call returns or raises within its timeout, and the thread
\* running scan_chute is scheduled again.
SpecDecode == InitDecode /\ [][NextDecode]_vars /\ WF_vars(NextDecode)

-----------------------------------------------------------------------------
(* Claims about the decoder *)

ScanDone == scan.pc = "done"
NoSample(r) == r.d[1] = 0 /\ r.c = 0

\* C11: scan_chute always terminates, whatever the serial calls deliver (no
\* byte, bytes with no valid frame, exceptions): it never goes beyond 5
\* attempts nor beyond 10 header-search iterations in one attempt, it ends
\* by returning, never by raising, and what it returns is a sample with a
\* positive distance or the sentinel (0, 0).
C11_ScanTerminates ==
    /\ [](/\ scan.attempt < Attempts
          /\ scan.search < HeaderSearches
          /\ ScanDone => /\ scan.ret.kind = "return"
                         /\ scan.ret.d[1] > 0 \/ NoSample(scan.ret))
    /\ <>ScanDone

\* Five attempts on a silent line: each searched ten times, none found a
\* header, and the call returned the sentinel.
C11_Witness ==
    /\ ScanDone
    /\ lidar
    /\ scan.attempt = Attempts - 1
    /\ scan.search = HeaderSearches - 1
    /\ scan.frame = <<>>
    /\ scan.fault = "none"
    /\ NoSample(scan.ret)

FrameSum(f) == (f[1] + f[2] + f[3] + f[4] + f[5] + f[6] + f[7] + f[8]) % 256

\* C17: on a connected sensor every result other than the sentinel comes
\* from 9 bytes read in a row that start with two 0x59 bytes and whose 9th
\* byte is the low 8 bits of the sum of the first 8, the distance taken
\* little-endian from bytes 2-3 (times 10 / 25.4) and the confidence from the
\* strength in bytes 4-5; a frame whose checksum byte is wrong gives no
\* sample, and the next attempt starts again at the header search (or the
\* call gives up with the sentinel after the fifth attempt).
C17_SampleOnlyFromValidFrame ==
    /\ []((ScanDone /\ lidar /\ ~NoSample(scan.ret)) =>
            LET f == scan.frame
            IN  /\ Len(f) = 9
                /\ f[1] = HeaderByte /\ f[2] = HeaderByte
                /\ f[9] = FrameSum(f)
                /\ scan.ret.d[1] * 254 = (f[3] + 256 * f[4]) * 100 * scan.ret.d[2]
                /\ scan.ret.c = IF f[5] + 256 * f[6] > StrengthScale
                                THEN StrengthScale ELSE f[5] + 256 * f[6])
    /\ [][(scan.pc = "payload" /\ Len(scan'.frame) = 9
             /\ scan'.frame[9] # FrameSum(scan'.frame))
          => \/ /\ scan'.pc = "reset"
                /\ scan'.attempt = scan.attempt + 1
             \/ /\ scan'.pc = "done"
                /\ scan.attempt = Attempts - 1
                /\ NoSample(scan'.ret)]_vars

\* A sample returned by the second attempt, from a frame of 9 bytes.
C17_Witness ==
    /\ ScanDone
    /\ lidar
    /\ scan.attempt = 1
    /\ scan.fault = "none"
    /\ Len(scan.frame) = 9
    /\ scan.ret.d = ToInches(1)
    /\ scan.ret.c = ConfidenceFloor

\* C18: a non-transient error raised by a serial call during an attempt
\* reaches the caller of scan_chute as a failure, distinct from the "no
\* sample" result (0, 0).
C18_FatalErrorSurfaces ==
    (ScanDone /\ scan.fault = "fatal")
        => ~(scan.ret.kind = "return" /\ NoSample(scan.ret))

-----------------------------------------------------------------------------
(* The calibration procedure, one call at a time *)

CalibrationScans == 5       \* lines 167 and 188: range(5)
MaxCalibrations == 3        \* calibration calls of one run

\* The distances the forced scans of a pass deliver here: the sentinel's 0,
\* the nearest reading and the farthest.
PassDistances == {0, ReadingStep, MaxReading * ReadingStep}

\* Lines 167-168: the distances of the five scan_chute(force_scan=True)
\* calls of one pass.  The pass only keeps the positive ones and takes their
\* mean, so the order within a pass is immaterial: passes are taken in
\* nondecreasing order.
Passes(cal, conn) ==
    {rs \in [1..CalibrationScans ->
                {s[1] : s \in scan_chute(TRUE, cal, conn)} \cap PassDistances] :
        \A i \in 1..(CalibrationScans - 1) : rs[i] <= rs[i + 1]}

RECURSIVE SumSeq(_)
SumSeq(ds) == IF ds = <<>> THEN 0 ELSE Head(ds) + SumSeq(Tail(ds))

\* Lines 169-170 without the test: every reading is kept.
EveryReading(rs) == rs

\* Lines 169-170: if d > 0: distances.append(d).
PositiveReadings(rs) == SelectSeq(rs, LAMBDA d : d > 0)

\* Lines 173 and 194: float(np.mean(distances)), exact on the grid.
Mean(ds) == SumSeq(ds) \div Len(ds)

\* The call on record: its name, its readings and what it returned.
Called(cb, op, rs, ret) ==
    [cb EXCEPT !.op = op, !.n = @ + 1, !.readings = rs, !.ret = ret]

\* Lines 161-180 with the field reset when no reading is valid.
calibrate_empty_resets ==
    /\ calib.n < MaxCalibrations
    /\ IF ~lidar
       THEN /\ calib' = Called(calib, "calibrate_empty", <<>>, FALSE)
            /\ UNCHANGED calibration_data
       ELSE \E rs \in Passes(calibration_data, lidar) :
              LET distances == PositiveReadings(rs)
              IN  IF distances # <<>>
                  THEN /\ calibration_data' =
                            [calibration_data EXCEPT
                               !.empty_distance = Mean(distances)]
                       /\ calib' = [Called(calib, "calibrate_empty", rs, TRUE)
                                      EXCEPT !.from_empty = TRUE]
                  ELSE /\ calibration_data' =
                            [calibration_data EXCEPT !.empty_distance = 0]
                       /\ calib' = Called(calib, "calibrate_empty", rs, FALSE)
    /\ UNCHANGED <<config, status, lidar, light, running, clock, hist,
                   calibration_file, scan, ctor>>
    /\ UNCHANGED <<classifyVars, threadVars>>

\* Lines 161-180.
calibrate_empty ==
    /\ calib.n < MaxCalibrations
    /\ IF ~lidar
       THEN /\ calib' = Called(calib, "calibrate_empty", <<>>, FALSE)
            /\ UNCHANGED calibration_data
       ELSE \E rs \in Passes(calibration_data, lidar) :
              LET distances == PositiveReadings(rs)
              IN  IF distances # <<>>
                  THEN /\ calibration_data' =
                            [calibration_data EXCEPT
                               !.empty_distance = Mean(distances)]
                       /\ calib' = [Called(calib, "calibrate_empty", rs, TRUE)
                                      EXCEPT !.from_empty = TRUE]
                  ELSE /\ UNCHANGED calibration_data
                       /\ calib' = Called(calib, "calibrate_empty", rs, FALSE)
    /\ UNCHANGED <<config, status, lidar, light, running, clock, hist,
                   calibration_file, scan, ctor>>
    /\ UNCHANGED <<classifyVars, threadVars>>

\* Lines 153-159: the file after save_calibration().
save_calibration(cal) == SavedFile(cal)

\* Lines 182-203.
calibrate_full ==
    /\ calib.n < MaxCalibrations
    /\ IF ~lidar
       THEN /\ calib' = Called(calib, "calibrate_full", <<>>, FALSE)
            /\ UNCHANGED <<calibration_data, calibration_file>>
       ELSE \E rs \in Passes(calibration_data, lidar) :
              LET distances == PositiveReadings(rs)
              IN  IF distances # <<>>
                  THEN /\ calibration_data' =
                            [calibration_data EXCEPT
                               !.full_distance = Mean(distances),
                               !.calibrated = TRUE]
                       /\ calibration_file' = save_calibration(calibration_data')
                       /\ calib' = [Called(calib, "calibrate_full", rs, TRUE)
                                      EXCEPT !.from_full = TRUE,
                                             !.cleared = FALSE]
                  ELSE /\ UNCHANGED <<calibration_data, calibration_file>>
                       /\ calib' = Called(calib, "calibrate_full", rs, FALSE)
    /\ UNCHANGED <<config, status, lidar, light, running, clock, hist, scan, ctor>>
    /\ UNCHANGED <<classifyVars, threadVars>>

\* A snapshot saved by an earlier run, its window other than the default.
EarlierSnapshot ==
    [CalibrationData(MaxReading * ReadingStep, ReadingStep, TRUE)
        EXCEPT !.chute_angle_range = <<0, 45>>]

\* web_ui.py lines 11-12: the monitor constructed from the defaults or from
\* the snapshot of an earlier run (whose distances came from calibration
\* passes), with or without a connection, and the loop started.
InitCalibrate ==
    /\ calibration_file \in {NoFile, SavedFile(EarlierSnapshot)}
    /\ calibration_data = load_calibration(calibration_file)
    /\ config = ChuteConfig(DefaultInferenceThreshold, DefaultFullThreshold)
    /\ status = ChuteStatus("unknown", 0, 0, 0, 0)
    /\ lidar \in BOOLEAN
    /\ light = "off"
    /\ running = TRUE
    /\ clock = 0
    /\ hist = <<>>
    /\ NoThreads
    /\ distance = 0
    /\ confidence = 0
    /\ call = NoCall
    /\ pc = "idle"
    /\ scan = NoScan
    /\ calib = [NoCalibration EXCEPT !.from_empty = calibration_file.present,
                                     !.from_full = calibration_file.present]
    /\ ctor = Constructed

NextCalibrate ==
    \/ calibrate_empty
    \/ calibrate_full
    \/ api_clear_calibration

SpecCalibrate == InitCalibrate /\ [][NextCalibrate]_vars

\* The passes taken where clearing is checked: no reading (no connection),
\* five sentinel readings, five readings of the nearest distance.
ClearPasses ==
    {<<>>, [i \in 1..CalibrationScans |-> 0],
     [i \in 1..CalibrationScans |-> ReadingStep]}

\* Clear-calibration among calibrate_full calls, scheduled cycles and forced
\* scans.
NextClear ==
    \/ api_clear_calibration
    \/ calibrate_full /\ calib'.readings \in ClearPasses
    \/ clock < MaxCalls /\ update_status
    \/ clock < MaxCalls /\ api_scan

SpecClear == InitCalibrate /\ [][NextClear]_vars

-----------------------------------------------------------------------------
(* Claims about the calibration procedure *)

CalibrationCall == calib'.n = calib.n + 1
ValidCount(rs) == Cardinality({i \in DOMAIN rs : rs[i] > 0})

\* C12: a calibrate_empty or calibrate_full call made without a connection,
\* or whose five forced scans give no positive reading, returns false and
\* leaves empty_distance, full_distance, calibrated (the whole of
\* calibration_data) and the persisted snapshot as they were.
C12_FailedCalibrationChangesNothing ==
    [][(CalibrationCall /\ (~lidar \/ ValidCount(calib'.readings) = 0))
       => /\ calib'.ret = FALSE
          /\ calibration_data' = calibration_data
          /\ calibration_file' = calibration_file]_vars

\* A calibrate_empty pass of five sentinel readings has failed on a monitor
\* calibrated before, whose reference distances and snapshot are still there.
C12_Witness ==
    /\ calib.op = "calibrate_empty"
    /\ ~calib.ret
    /\ Len(calib.readings) = CalibrationScans
    /\ calibration_data.calibrated
    /\ calibration_data.empty_distance > 0
    /\ calibration_file.present

C14_CalibratedImpliesBothSet ==
    calibration_data.calibrated =>
        /\ calib.from_empty /\ calibration_data.empty_distance # 0
        /\ calib.from_full /\ calibration_data.full_distance # 0


\* C15: when clear-calibration has completed, calibrated is false, the
\* reference distances are 0, the window is [0, 30] and no snapshot file is
\* left; from then on, until a calibrate_full call succeeds, every scheduled
\* cycle and every forced scan publishes unknown, whatever the sample.
C15_ClearedMeansUnknown ==
    /\ [](calib.op = "clear" =>
            /\ ~calibration_data.calibrated
            /\ calibration_data.empty_distance = 0
            /\ calibration_data.full_distance = 0
            /\ calibration_data.chute_angle_range = <<0, 30>>
            /\ ~calibration_file.present)
    /\ [][((ScheduledCycle \/ ForcedScan) /\ calib.cleared)
          => status'.status = "unknown"]_vars

\* The nearest reading at confidence 0.1 was classified full by a scheduled
\* cycle; calibration cleared since, a forced scan of the same sample
\* publishes unknown.
C15_Witness ==
    /\ calib.cleared
    /\ hist = <<TRUE>>
    /\ status.last_scan = 2
    /\ status.raw_distance = ReadingStep
    /\ status.confidence = ConfidenceFloor
    /\ status.status = "unknown"

-----------------------------------------------------------------------------
(* Claims about the light *)

\* C16: after every classification cycle, scheduled (update_status) or
\* forced (api_scan), the last colour commanded to the light matches the
\* status that the cycle published: red exactly for full and
\* needs_attention, green for not_full, empty and unknown.
C16_LightMatchesPublishedStatus ==
    [][((ScheduledCycle \/ ForcedScan) /\ light # "none")
       => light' = IF status'.status \in {"full", "needs_attention"}
                   THEN "red" ELSE "green"]_vars

-----------------------------------------------------------------------------
(* ChuteMonitor.__init__, line by line *)

\* Line 47 entered: no attribute of self is assigned yet (the variables hold
\* placeholders), self.logger does not exist.
Constructing == [pc |-> "assign", logger |-> FALSE, raised |-> "none"]

CtorAt(line) == ctor.pc = line /\ ctor.raised = "none"

ctorFrame == <<config, running, clock, hist, calibration_file, scan, calib>>

\* Lines 48-49: self.config, self.status.
CtorAssign ==
    /\ CtorAt("assign")
    /\ status' = ChuteStatus("unknown", 0, 0, 0, 0)
    /\ ctor' = [ctor EXCEPT !.pc = "load"]
    /\ UNCHANGED <<calibration_data, lidar, light>>
    /\ UNCHANGED <<ctorFrame, classifyVars, threadVars>>

\* Line 145 inside load_calibration: self.logger.error(...).  Without the
\* attribute the call raises AttributeError out of the except clause, and
\* out of load_calibration and __init__; with it, the failure is logged and
\* line 146 returns the defaults.
LogLoadFailure(ct) ==
    IF ct.logger THEN [ct EXCEPT !.pc = "fields"]
    ELSE [ct EXCEPT !.pc = "raised", !.raised = "AttributeError"]

\* Line 50: self.calibration_data = self.load_calibration() (lines 139-151).
CtorLoad ==
    /\ CtorAt("load")
    /\ IF calibration_file.present /\ ~calibration_file.parses
       THEN /\ ctor' = LogLoadFailure(ctor)
            /\ calibration_data' = IF ctor'.raised = "none" THEN DefaultCalibration
                                   ELSE calibration_data
       ELSE /\ ctor' = [ctor EXCEPT !.pc = "fields"]
            /\ calibration_data' = load_calibration(calibration_file)
    /\ UNCHANGED <<status, lidar, light>>
    /\ UNCHANGED <<ctorFrame, classifyVars, threadVars>>

\* Lines 51-54: lidar, light, running, monitor_thread.
CtorFields ==
    /\ CtorAt("fields")
    /\ lidar' = FALSE
    /\ light' = "none"
    /\ ctor' = [ctor EXCEPT !.pc = "logging"]
    /\ UNCHANGED <<calibration_data, status>>
    /\ UNCHANGED <<ctorFrame, classifyVars, threadVars>>

\* Lines 56-61: logging configured, self.logger assigned.
CtorLogger ==
    /\ CtorAt("logging")
    /\ ctor' = [ctor EXCEPT !.pc = "init_lidar", !.logger = TRUE]
    /\ UNCHANGED <<calibration_data, status, lidar, light>>
    /\ UNCHANGED <<ctorFrame, classifyVars, threadVars>>

\* Lines 63 and 66-76: the port opens or it does not.
init_lidar ==
    /\ CtorAt("init_lidar")
    /\ lidar' \in BOOLEAN
    /\ ctor' = [ctor EXCEPT !.pc = "init_light"]
    /\ UNCHANGED <<calibration_data, status, light>>
    /\ UNCHANGED <<ctorFrame, classifyVars, threadVars>>

\* Lines 64 and 78-98: the tower light opens (all lamps switched off) or not.
init_light ==
    /\ CtorAt("init_light")
    /\ light' \in {"none", "off"}
    /\ ctor' = [ctor EXCEPT !.pc = "done"]
    /\ UNCHANGED <<calibration_data, status, lidar>>
    /\ UNCHANGED <<ctorFrame, classifyVars, threadVars>>

\* The snapshots a file may hold at startup.
StartupFiles ==
    {NoFile, CorruptFile, SavedFile(MalformedSnapshot)}
    \cup {SavedFile(CalibrationData(e, f, c)) :
             e \in SnapshotDistances, f \in SnapshotDistances, c \in BOOLEAN}

\* ChuteMonitor(config) is called: any file, any inference_threshold.
InitConstruct ==
    /\ calibration_file \in StartupFiles
    /\ calibration_data = MalformedSnapshot
    /\ config \in {ChuteConfig(n, DefaultFullThreshold) : n \in InferenceThresholds}
    /\ status = ChuteStatus("unknown", 0, 0, 0, 0)
    /\ lidar = FALSE
    /\ light = "none"
    /\ running = FALSE
    /\ clock = 0
    /\ hist = <<>>
    /\ NoThreads
    /\ distance = 0
    /\ confidence = 0
    /\ call = NoCall
    /\ pc = "idle"
    /\ scan = NoScan
    /\ calib = NoCalibration
    /\ ctor = Constructing

NextConstruct ==
    \/ CtorAssign
    \/ CtorLoad
    \/ CtorFields
    \/ CtorLogger
    \/ init_lidar
    \/ init_light

SpecConstruct == InitConstruct /\ [][NextConstruct]_vars

\* C19: with a calibration file that exists but cannot be parsed, the
\* constructor does not fail: it raises nothing, and once it has returned
\* calibration_data holds the defaults (0, 0, [0, 30], not calibrated).
C19_CorruptSnapshotFallsBack ==
    (calibration_file.present /\ ~calibration_file.parses) =>
        /\ ctor.raised = "none"
        /\ ctor.pc = "done" => calibration_data = DefaultCalibration

-----------------------------------------------------------------------------
(* Claim about the number of loop threads *)

\* C20: at most one monitoring-loop thread is alive at any time, whatever
\* the interleaving of the start_monitoring and stop_monitoring calls of the
\* request threads.
C20_AtMostOneLoopThread ==
    Cardinality({t \in LoopThreads : Alive(t)}) <= 1

====
